---- MODULE Spec2Model ----
(***************************************************************************)
(* Inventory / repair-tracking REST API (repuestos = parts, fichas = repair *)
(* jobs, table maquinas).  The repository holds two builds of the same     *)
(* application: src/Backend/main.py (pooled connections, token check, rate  *)
(* limit, allow-list in update_repuesto, Literal action) and               *)
(* src/FastAPI/main.py (one connection per request, free-form action,      *)
(* empty-update check in update_ficha).  The variable app says which build *)
(* serves the requests of a behaviour.                                     *)
(*                                                                         *)
(* A request is handled in steps, one per database round trip:             *)
(*   Begin (credential check, validation, rate limit, get_db_connection)   *)
(*   -> OpenCursor -> the handler's statements -> Finally -> Respond.      *)
(* Each SELECT reads the committed store; a write and its commit are one   *)
(* step.  Time passes in slots (Tick), which only the rate limiter reads.  *)
(***************************************************************************)
EXTENDS Integers, Sequences, FiniteSets, TLC

\* ---------------------------------------------------------------- bounds
\* stored quantities are kept within -MaxQty .. MaxQty
MaxQty == 2
\* pooled connections that may be lost (never returned) in one behaviour
MaxLeaked == 1
\* number of keys of an update payload
MaxFields == 2
\* handler instances that may be in flight together
NReq == 2
\* rows a behaviour may insert into each table
MaxCreated == 1
\* time slots in the rate limiter's minute
Minute == 2
\* requests a caller sends to one route within a minute, outside the
\* specification of the rate limiter
MaxHits == 2
\* requests a minute of the second caller and on the second route, in the
\* specification of the rate limiter
MaxOther == 1

\* ------------------------------------------------------- program constants
pool_size == 10
\* @limiter.limit("100/minute")
per_minute == 100

Req == 1 .. NReq

Apps == {"Backend", "FastAPI"}

\* ------------------------------------------------------------ input domains
\* part codes a request or a job may name; "PX" names no part row
CodeOrder == <<"P1", "P2", "PX">>
Codes == {CodeOrder[i] : i \in DOMAIN CodeOrder}
RepIds == {1, 3}
FichaIds == {1, 2}
Actions == {"increase", "decrease", "reset"}
QtyRange == (0 - MaxQty) .. MaxQty

\* the Authorization header of a request: a token auth.verify_id_token accepts,
\* "bad" for one it rejects (invalid or expired), "" when the header is missing
Tokens == {"tokA", "tokB"}
Credentials == {"tokA", "bad", ""}

\* the routes, by the name of their handler
Routes == {"get_repuestos", "create_repuesto", "update_repuesto", "delete_repuesto",
           "search_repuestos", "get_fichas", "create_ficha", "update_ficha",
           "delete_ficha", "search_fichas", "update_stock"}

\* repuestos_colocados mappings a client may send (part code -> quantity)
PlacedChoices ==
    { [c \in {"P1"} |-> 1],
      [c \in {"P1", "PX"} |-> IF c = "P1" THEN 2 ELSE 1],
      [c \in {"P1"} |-> 0 - 1] }

\* ------------------------------------------------------------------ JSON
\* json.dumps of a mapping part code -> int: the text, as its list of
\* "key": value members
RECURSIVE dumps_from(_, _)
dumps_from(d, i) ==
    IF i > Len(CodeOrder) THEN <<>>
    ELSE IF CodeOrder[i] \in DOMAIN d
         THEN <<(<<CodeOrder[i], d[CodeOrder[i]]>>)>> \o dumps_from(d, i + 1)
         ELSE dumps_from(d, i + 1)

json_dumps(d) == dumps_from(d, 1)

\* json.loads of such a text: the mapping; a repeated key keeps its last value
json_loads(t) ==
    [k \in {t[i][1] : i \in DOMAIN t} |->
        LET last_i == CHOOSE i \in DOMAIN t :
                          /\ t[i][1] = k
                          /\ \A j \in DOMAIN t : t[j][1] = k => j <= i
        IN  t[last_i][2]]

VARIABLES
    app,          \* the build that serves the requests
    repuestos,    \* table repuestos: ID -> row
    maquinas,     \* table maquinas: item -> row
    leaked,       \* pooled connections checked out by handlers that have ended
    pc,           \* each request's position in its handler
    req,          \* each request's route and arguments
    connection,   \* each request's connection: none / open / lost / closed
    cursor,       \* whether the handler's name cursor is bound
    ficha,        \* update_stock: the job row fetched
    repuesto,     \* update_stock: the part row fetched
    new_stock,    \* update_stock: the value computed
    status,       \* the response's status code (0: none yet)
    detail,       \* the response's detail
    nsql,         \* SQL statements the handler has sent
    pre,          \* the store when the request began
    expected,     \* per part code: the quantity if every successful update_stock
                  \* had moved the stored quantity by its own signed delta
    last,         \* the latest answered request, when it was a successful update_stock
    auto_increment, \* per table: the id the next INSERT is given
    storage,      \* the rate limiter's counters: (caller, route) -> hits and time to live
    reached       \* per (caller, route): the requests that reached the handler in
                  \* each of the last Minute time slots

vars == << app, repuestos, maquinas, leaked, pc, req, connection, cursor, ficha,
           repuesto, new_stock, status, detail, nsql, pre, expected, last,
           auto_increment, storage, reached >>

locals == << ficha, repuesto, new_stock >>

\* ------------------------------------------------------------ initial store
InitRepuestos ==
    (1 :> [codigo |-> "P1", cantidad_disponible |-> 2, n_estante |-> 7]) @@
    (2 :> [codigo |-> "P2", cantidad_disponible |-> 0, n_estante |-> 7])

InitMaquinas ==
    (1 :> [repuestos_colocados |-> json_dumps([c \in {"P1"} |-> 1]),
           repuestos_faltantes |-> json_dumps([c \in {"P2"} |-> 1]),
           estado |-> "abierta"])

NoReq == [op |-> "none", credentials |-> "", id |-> 0, codigo |-> "", action |-> "",
          payload |-> <<>>]
NoFicha == [found |-> FALSE, repuestos_colocados |-> <<>>]
NoRepuesto == [found |-> FALSE, cantidad_disponible |-> 0]
NoLast == [valid |-> FALSE, id |-> 0, codigo |-> "", action |-> "",
           before |-> 0, after |-> 0]

\* AUTO_INCREMENT of each table: one more than the largest id ever given
InitAutoIncrement == [repuestos |-> 3, maquinas |-> 2]

\* limits' MemoryStorage: no key has an entry
NoEntry == [n |-> 0, ttl |-> 0]
NoStorage == [kr \in Tokens \X Routes |-> NoEntry]
NoReached == [kr \in Tokens \X Routes |-> [i \in 1 .. Minute |-> 0]]

Store == [repuestos |-> repuestos, maquinas |-> maquinas]
NoPre == [repuestos |-> InitRepuestos, maquinas |-> InitMaquinas]

\* SELECT ... FROM repuestos WHERE codigo = c, fetchone(): the first such row
RowsByCodigo(tbl, c) == {i \in DOMAIN tbl : tbl[i].codigo = c}
FirstByCodigo(tbl, c) ==
    CHOOSE i \in RowsByCodigo(tbl, c) : \A j \in RowsByCodigo(tbl, c) : i <= j
StoredQty(tbl, c) ==
    IF RowsByCodigo(tbl, c) = {} THEN 0
    ELSE tbl[FirstByCodigo(tbl, c)].cantidad_disponible

Init ==
    /\ app \in Apps
    /\ repuestos = InitRepuestos
    /\ maquinas = InitMaquinas
    /\ leaked = 0
    /\ pc = [r \in Req |-> "idle"]
    /\ req = [r \in Req |-> NoReq]
    /\ connection = [r \in Req |-> "none"]
    /\ cursor = [r \in Req |-> FALSE]
    /\ ficha = [r \in Req |-> NoFicha]
    /\ repuesto = [r \in Req |-> NoRepuesto]
    /\ new_stock = [r \in Req |-> 0]
    /\ status = [r \in Req |-> 0]
    /\ detail = [r \in Req |-> ""]
    /\ nsql = [r \in Req |-> 0]
    /\ pre = [r \in Req |-> NoPre]
    /\ expected = [c \in Codes |-> StoredQty(InitRepuestos, c)]
    /\ last = NoLast
    /\ auto_increment = InitAutoIncrement
    /\ storage = NoStorage
    /\ reached = NoReached

\* ------------------------------------------------------- connection handling
InFlight(r) == pc[r] \notin {"idle", "done"}

\* connections taken from the pool and not returned to it (FastAPI has no pool)
CheckedOut ==
    IF app = "Backend"
    THEN leaked + Cardinality({r \in Req : connection[r] \in {"open", "lost"}})
    ELSE 0

\* variant of get_db_connection: the pool hands out one connection more than
\* it holds
get_db_connection_over(r) ==
    \/ /\ app = "Backend" => CheckedOut <= pool_size
       /\ connection' = [connection EXCEPT ![r] = "open"]
       /\ pc' = [pc EXCEPT ![r] = "try"]
       /\ UNCHANGED << status, detail >>
    \/ /\ connection' = [connection EXCEPT ![r] = "none"]
       /\ pc' = [pc EXCEPT ![r] = "done"]
       /\ status' = [status EXCEPT ![r] = 500]
       /\ detail' = [detail EXCEPT ![r] =
               IF app = "Backend" THEN "Internal Server Error"
               ELSE "Database connection failed"]

\* get_db_connection: Backend takes a pooled connection (PoolError when the pool
\* is empty, an Error when the reconnect fails; both escape the handler);
\* FastAPI connects, and answers 500 when the connection is None
get_db_connection(r) ==
    \/ /\ app = "Backend" => CheckedOut < pool_size
       /\ connection' = [connection EXCEPT ![r] = "open"]
       /\ pc' = [pc EXCEPT ![r] = "try"]
       /\ UNCHANGED << status, detail >>
    \/ /\ connection' = [connection EXCEPT ![r] = "none"]
       /\ pc' = [pc EXCEPT ![r] = "done"]
       /\ status' = [status EXCEPT ![r] = 500]
       /\ detail' = [detail EXCEPT ![r] =
               IF app = "Backend" THEN "Internal Server Error"
               ELSE "Database connection failed"]

\* a request arrives: its arguments are recorded and a connection is taken
Arrive(r, q) ==
    /\ pc[r] = "idle"
    /\ req' = [req EXCEPT ![r] = q]

\* raise HTTPException(code, det) inside the try block: control goes to finally
Raise(r, code, det) ==
    /\ status' = [status EXCEPT ![r] = code]
    /\ detail' = [detail EXCEPT ![r] = det]
    /\ pc' = [pc EXCEPT ![r] = "finally"]

\* a statement raises mysql.connector.Error (always, once the connection is
\* lost): the except clause answers 500
DbError(r) ==
    /\ connection[r] \in {"open", "lost"}
    /\ nsql' = [nsql EXCEPT ![r] = @ + 1]
    /\ Raise(r, 500, "Database error")

\* cursor = connection.cursor(...): raises when the connection is not available
OpenCursor(r) ==
    /\ pc[r] = "try"
    /\ IF connection[r] = "open"
       THEN /\ cursor' = [cursor EXCEPT ![r] = TRUE]
            /\ pc' = [pc EXCEPT ![r] =
                    IF req[r].op = "update_stock" THEN "select_ficha" ELSE "execute"]
            /\ UNCHANGED << status, detail >>
       ELSE /\ Raise(r, 500, "Database error")
            /\ UNCHANGED cursor
    /\ UNCHANGED << app, auto_increment, storage, repuestos, maquinas, leaked, req,
                    connection, locals, nsql, expected >>

\* finally: if connection.is_connected(): cursor.close(); connection.close()
\* (cursor.close() on an unbound cursor raises, and connection.close() is skipped)
Finally(r) ==
    /\ pc[r] = "finally"
    /\ connection' = [connection EXCEPT ![r] =
            IF connection[r] = "open" /\ cursor[r] THEN "closed" ELSE @]
    /\ status' = [status EXCEPT ![r] =
            IF connection[r] = "open" /\ ~cursor[r] THEN 500 ELSE @]
    /\ pc' = [pc EXCEPT ![r] = "done"]
    /\ UNCHANGED << app, auto_increment, storage, repuestos, maquinas, leaked, req,
                    cursor, locals, detail, nsql, expected >>

\* the server drops the connection while the handler holds it
Disconnect(r) ==
    /\ InFlight(r)
    /\ connection[r] = "open"
    /\ connection' = [connection EXCEPT ![r] = "lost"]
    /\ UNCHANGED << app, auto_increment, storage, repuestos, maquinas, leaked, pc, req,
                    cursor, locals, status, detail, nsql, expected >>

\* the same, at most MaxLeaked times in a behaviour
ConnectionLost(r) ==
    /\ leaked + Cardinality({x \in Req : connection[x] = "lost"}) < MaxLeaked
    /\ Disconnect(r)

\* the response is sent and the handler's frame is dropped; a pooled connection
\* that was not closed stays checked out
Respond(r) ==
    /\ pc[r] = "done"
    /\ leaked' = IF app = "Backend" /\ connection[r] \in {"open", "lost"}
                 THEN leaked + 1 ELSE leaked
    /\ pc' = [pc EXCEPT ![r] = "idle"]
    /\ req' = [req EXCEPT ![r] = NoReq]
    /\ connection' = [connection EXCEPT ![r] = "none"]
    /\ cursor' = [cursor EXCEPT ![r] = FALSE]
    /\ ficha' = [ficha EXCEPT ![r] = NoFicha]
    /\ repuesto' = [repuesto EXCEPT ![r] = NoRepuesto]
    /\ new_stock' = [new_stock EXCEPT ![r] = 0]
    /\ status' = [status EXCEPT ![r] = 0]
    /\ detail' = [detail EXCEPT ![r] = ""]
    /\ nsql' = [nsql EXCEPT ![r] = 0]
    /\ UNCHANGED << app, auto_increment, storage, repuestos, maquinas, expected >>

\* ------------------------------------------- the routes' dependency and limit
\* limits' fixed window, in memory: the first hit of a caller on a route opens a
\* window of one minute, every hit in it is counted (counts past the limit are
\* kept at per_minute + 1: they all mean "over the limit")
hit(entry) ==
    [n |-> IF entry.n > per_minute THEN entry.n ELSE entry.n + 1,
     ttl |-> IF entry.n = 0 THEN Minute ELSE entry.ttl]

\* the request is answered before its handler is called
Refuse(r, codes, det) ==
    /\ pc' = [pc EXCEPT ![r] = "done"]
    /\ \E code \in codes : status' = [status EXCEPT ![r] = code]
    /\ detail' = [detail EXCEPT ![r] = det]
    /\ UNCHANGED connection

\* what runs between the arrival of a request and the first line of its handler.
\* Backend: the dependency verify_firebase_token (HTTPBearer refuses a request
\* without Authorization header with 403, with 401 in later releases of the
\* framework; a token auth.verify_id_token rejects is answered 401), then the
\* validation of the arguments (422), then the decorator @limiter.limit, keyed
\* by the Authorization header (429).  FastAPI: the validation only.
\* Then the handler starts: connection = get_db_connection()
Admit(r, cr, route, valid) ==
    IF app = "Backend" /\ cr = ""
    THEN Refuse(r, {401, 403}, "Not authenticated") /\ UNCHANGED storage
    ELSE IF app = "Backend" /\ cr \notin Tokens
    THEN Refuse(r, {401}, "Token invalido o expirado") /\ UNCHANGED storage
    ELSE IF ~valid
    THEN Refuse(r, {422}, "validation error") /\ UNCHANGED storage
    ELSE IF app = "Backend"
    THEN /\ storage' = [storage EXCEPT ![<<cr, route>>] = hit(@)]
         /\ IF storage[<<cr, route>>].n >= per_minute
            THEN Refuse(r, {429}, "Rate limit exceeded: 100 per 1 minute")
            ELSE get_db_connection(r)
    ELSE get_db_connection(r) /\ UNCHANGED storage

\* a time slot passes: the limiter's windows age and the expired ones are dropped
Tick ==
    /\ storage' = [kr \in DOMAIN storage |->
            IF storage[kr].ttl <= 1 THEN NoEntry
            ELSE [storage[kr] EXCEPT !.ttl = @ - 1]]
    /\ UNCHANGED << app, auto_increment, repuestos, maquinas, leaked, pc, req,
                    connection, cursor, locals, status, detail, nsql, expected >>

\* ------------------------------------------------------------ update_stock
\* UpdateStockParams: Backend declares action as Literal["increase", "decrease"],
\* so any other action fails request validation (422) before the handler runs;
\* FastAPI declares it as str
UpdateStockParams(a) == app = "Backend" => a \in {"increase", "decrease"}

\* variants of update_stock_result, each with one slip
\* a decrease that empties the stock is rejected
update_stock_result_no_zero(f, p, repuesto_codigo, action) ==
    IF ~f.found \/ ~p.found
    THEN [code |-> 404, detail |-> "Ficha or Repuesto not found", new_stock |-> 0]
    ELSE LET repuestos_colocados == json_loads(f.repuestos_colocados) IN
         IF repuesto_codigo \notin DOMAIN repuestos_colocados
         THEN [code |-> 400, detail |-> "Repuesto not found in repuestos_colocados",
               new_stock |-> 0]
         ELSE LET cantidad == repuestos_colocados[repuesto_codigo]
                  stock_actual == p.cantidad_disponible
              IN  IF action = "decrease"
                  THEN IF stock_actual - cantidad <= 0
                       THEN [code |-> 400, detail |-> "Not enough stock",
                             new_stock |-> stock_actual - cantidad]
                       ELSE [code |-> 200, detail |-> "Stock updated successfully",
                             new_stock |-> stock_actual - cantidad]
                  ELSE IF action = "increase"
                       THEN [code |-> 200, detail |-> "Stock updated successfully",
                             new_stock |-> stock_actual + cantidad]
                       ELSE [code |-> 400, detail |-> "Invalid action", new_stock |-> 0]

\* increase subtracts, as decrease does
update_stock_result_subtracts(f, p, repuesto_codigo, action) ==
    IF ~f.found \/ ~p.found
    THEN [code |-> 404, detail |-> "Ficha or Repuesto not found", new_stock |-> 0]
    ELSE LET repuestos_colocados == json_loads(f.repuestos_colocados) IN
         IF repuesto_codigo \notin DOMAIN repuestos_colocados
         THEN [code |-> 400, detail |-> "Repuesto not found in repuestos_colocados",
               new_stock |-> 0]
         ELSE LET cantidad == repuestos_colocados[repuesto_codigo]
                  stock_actual == p.cantidad_disponible
              IN  IF action = "decrease"
                  THEN IF stock_actual - cantidad < 0
                       THEN [code |-> 400, detail |-> "Not enough stock",
                             new_stock |-> stock_actual - cantidad]
                       ELSE [code |-> 200, detail |-> "Stock updated successfully",
                             new_stock |-> stock_actual - cantidad]
                  ELSE IF action = "increase"
                       THEN [code |-> 200, detail |-> "Stock updated successfully",
                             new_stock |-> stock_actual - cantidad]
                       ELSE [code |-> 400, detail |-> "Invalid action", new_stock |-> 0]

\* increase adds one unit instead of the recorded quantity
update_stock_result_unit(f, p, repuesto_codigo, action) ==
    IF ~f.found \/ ~p.found
    THEN [code |-> 404, detail |-> "Ficha or Repuesto not found", new_stock |-> 0]
    ELSE LET repuestos_colocados == json_loads(f.repuestos_colocados) IN
         IF repuesto_codigo \notin DOMAIN repuestos_colocados
         THEN [code |-> 400, detail |-> "Repuesto not found in repuestos_colocados",
               new_stock |-> 0]
         ELSE LET cantidad == repuestos_colocados[repuesto_codigo]
                  stock_actual == p.cantidad_disponible
              IN  IF action = "decrease"
                  THEN IF stock_actual - cantidad < 0
                       THEN [code |-> 400, detail |-> "Not enough stock",
                             new_stock |-> stock_actual - cantidad]
                       ELSE [code |-> 200, detail |-> "Stock updated successfully",
                             new_stock |-> stock_actual - cantidad]
                  ELSE IF action = "increase"
                       THEN [code |-> 200, detail |-> "Stock updated successfully",
                             new_stock |-> stock_actual + 1]
                       ELSE [code |-> 400, detail |-> "Invalid action", new_stock |-> 0]

\* a part code the job does not record counts as quantity 0
update_stock_result_default(f, p, repuesto_codigo, action) ==
    IF ~f.found \/ ~p.found
    THEN [code |-> 404, detail |-> "Ficha or Repuesto not found", new_stock |-> 0]
    ELSE LET repuestos_colocados == json_loads(f.repuestos_colocados)
             cantidad == IF repuesto_codigo \in DOMAIN repuestos_colocados
                         THEN repuestos_colocados[repuesto_codigo] ELSE 0
             stock_actual == p.cantidad_disponible
         IN  IF action = "decrease"
             THEN IF stock_actual - cantidad < 0
                  THEN [code |-> 400, detail |-> "Not enough stock",
                        new_stock |-> stock_actual - cantidad]
                  ELSE [code |-> 200, detail |-> "Stock updated successfully",
                        new_stock |-> stock_actual - cantidad]
             ELSE IF action = "increase"
                  THEN [code |-> 200, detail |-> "Stock updated successfully",
                        new_stock |-> stock_actual + cantidad]
                  ELSE [code |-> 400, detail |-> "Invalid action", new_stock |-> 0]

\* the part row is looked for only after the part code was found on the job
update_stock_result_late_404(f, p, repuesto_codigo, action) ==
    IF ~f.found
    THEN [code |-> 404, detail |-> "Ficha or Repuesto not found", new_stock |-> 0]
    ELSE LET repuestos_colocados == json_loads(f.repuestos_colocados) IN
         IF repuesto_codigo \notin DOMAIN repuestos_colocados
         THEN [code |-> 400, detail |-> "Repuesto not found in repuestos_colocados",
               new_stock |-> 0]
         ELSE IF ~p.found
         THEN [code |-> 404, detail |-> "Ficha or Repuesto not found", new_stock |-> 0]
         ELSE LET cantidad == repuestos_colocados[repuesto_codigo]
                  stock_actual == p.cantidad_disponible
              IN  IF action = "decrease"
                  THEN IF stock_actual - cantidad < 0
                       THEN [code |-> 400, detail |-> "Not enough stock",
                             new_stock |-> stock_actual - cantidad]
                       ELSE [code |-> 200, detail |-> "Stock updated successfully",
                             new_stock |-> stock_actual - cantidad]
                  ELSE IF action = "increase"
                       THEN [code |-> 200, detail |-> "Stock updated successfully",
                             new_stock |-> stock_actual + cantidad]
                       ELSE [code |-> 400, detail |-> "Invalid action", new_stock |-> 0]

\* the handler's decision once both rows are fetched: the response and new_stock
update_stock_result(f, p, repuesto_codigo, action) ==
    IF ~f.found \/ ~p.found
    THEN [code |-> 404, detail |-> "Ficha or Repuesto not found", new_stock |-> 0]
    ELSE LET repuestos_colocados == json_loads(f.repuestos_colocados) IN
         IF repuesto_codigo \notin DOMAIN repuestos_colocados
         THEN [code |-> 400, detail |-> "Repuesto not found in repuestos_colocados",
               new_stock |-> 0]
         ELSE LET cantidad == repuestos_colocados[repuesto_codigo]
                  stock_actual == p.cantidad_disponible
              IN  IF action = "decrease"
                  THEN IF stock_actual - cantidad < 0
                       THEN [code |-> 400, detail |-> "Not enough stock",
                             new_stock |-> stock_actual - cantidad]
                       ELSE [code |-> 200, detail |-> "Stock updated successfully",
                             new_stock |-> stock_actual - cantidad]
                  ELSE IF action = "increase"
                       THEN [code |-> 200, detail |-> "Stock updated successfully",
                             new_stock |-> stock_actual + cantidad]
                       ELSE [code |-> 400, detail |-> "Invalid action", new_stock |-> 0]

\* variant of SetStock: the WHERE clause is missing, every part gets the quantity
SetStock_every_row(tbl, c, n) ==
    [i \in DOMAIN tbl |-> [tbl[i] EXCEPT !.cantidad_disponible = n]]

\* UPDATE repuestos SET cantidad_disponible = n WHERE codigo = c
SetStock(tbl, c, n) ==
    [i \in DOMAIN tbl |->
        IF tbl[i].codigo = c THEN [tbl[i] EXCEPT !.cantidad_disponible = n] ELSE tbl[i]]

\* PUT /update_stock/{ficha_id}/{repuesto_codigo} with body {"action": a}
StartUpdateStock(r, cr, id, c, a) ==
    /\ Arrive(r, [op |-> "update_stock", credentials |-> cr, id |-> id, codigo |-> c,
                  action |-> a, payload |-> <<>>])
    /\ Admit(r, cr, "update_stock", UpdateStockParams(a))
    /\ UNCHANGED << app, auto_increment, repuestos, maquinas, leaked, cursor, locals,
                    nsql, expected >>

BeginUpdateStock(r) ==
    \E cr \in Credentials, id \in FichaIds, c \in Codes, a \in Actions :
        StartUpdateStock(r, cr, id, c, a)

\* the same, for requests of one caller that all adjust part P1 by job 1's
\* recorded quantity
BeginUpdateStockP1(r) ==
    \E a \in {"increase", "decrease"} : StartUpdateStock(r, "tokA", 1, "P1", a)

\* SELECT repuestos_colocados FROM maquinas WHERE item = ficha_id; fetchone()
SelectFicha(r) ==
    /\ pc[r] = "select_ficha"
    /\ \/ /\ connection[r] = "open"
          /\ ficha' = [ficha EXCEPT ![r] =
                 IF req[r].id \in DOMAIN maquinas
                 THEN [found |-> TRUE,
                       repuestos_colocados |-> maquinas[req[r].id].repuestos_colocados]
                 ELSE NoFicha]
          /\ nsql' = [nsql EXCEPT ![r] = @ + 1]
          /\ pc' = [pc EXCEPT ![r] = "select_repuesto"]
          /\ UNCHANGED << status, detail >>
       \/ /\ DbError(r)
          /\ UNCHANGED ficha
    /\ UNCHANGED << app, auto_increment, storage, repuestos, maquinas, leaked, req,
                    connection, cursor, repuesto, new_stock, expected >>

\* SELECT cantidad_disponible FROM repuestos WHERE codigo = repuesto_codigo; fetchone()
SelectRepuesto(r) ==
    /\ pc[r] = "select_repuesto"
    /\ \/ /\ connection[r] = "open"
          /\ repuesto' = [repuesto EXCEPT ![r] =
                 IF RowsByCodigo(repuestos, req[r].codigo) # {}
                 THEN [found |-> TRUE,
                       cantidad_disponible |-> StoredQty(repuestos, req[r].codigo)]
                 ELSE NoRepuesto]
          /\ nsql' = [nsql EXCEPT ![r] = @ + 1]
          /\ pc' = [pc EXCEPT ![r] = "update"]
          /\ UNCHANGED << status, detail >>
       \/ /\ DbError(r)
          /\ UNCHANGED repuesto
    /\ UNCHANGED << app, auto_increment, storage, repuestos, maquinas, leaked, req,
                    connection, cursor, ficha, new_stock, expected >>

\* the checks, the computation of new_stock, the UPDATE and the commit
UpdateStock(r) ==
    LET res == update_stock_result(ficha[r], repuesto[r], req[r].codigo, req[r].action)
        moved == res.new_stock - repuesto[r].cantidad_disponible
    IN
    /\ pc[r] = "update"
    /\ \/ /\ res.code # 200
          /\ Raise(r, res.code, res.detail)
          /\ new_stock' = [new_stock EXCEPT ![r] = res.new_stock]
          /\ UNCHANGED << repuestos, nsql, expected >>
       \/ /\ res.code = 200
          /\ connection[r] = "open"
          /\ res.new_stock \in QtyRange
          /\ expected[req[r].codigo] + moved \in QtyRange
          /\ repuestos' = SetStock(repuestos, req[r].codigo, res.new_stock)
          /\ expected' = [expected EXCEPT ![req[r].codigo] = @ + moved]
          /\ new_stock' = [new_stock EXCEPT ![r] = res.new_stock]
          /\ nsql' = [nsql EXCEPT ![r] = @ + 1]
          /\ Raise(r, 200, res.detail)
       \/ /\ res.code = 200
          /\ DbError(r)
          /\ new_stock' = [new_stock EXCEPT ![r] = res.new_stock]
          /\ UNCHANGED << repuestos, expected >>
    /\ UNCHANGED << app, auto_increment, storage, maquinas, leaked, req, connection,
                    cursor, ficha, repuesto >>

\* ------------------------------------------------------------ update payloads
\* an update payload is a JSON object: its members in order, as <<key, value>>
\* (n_estante stands for the column n(o)_estante; shelf numbers are written
\* as their number)
RepKeys == {"cantidad_disponible", "n_estante", "bogus"}
RepValues(k) ==
    IF k = "cantidad_disponible" THEN {0 - 1, 2}
    ELSE IF k = "n_estante" THEN {8} ELSE {9}

FichaKeys == {"repuestos_colocados", "estado", "bogus"}
FichaValues(k) ==
    IF k = "repuestos_colocados" THEN PlacedChoices
    ELSE IF k = "estado" THEN {"cerrada"} ELSE {"x"}

Keys(payload) == [i \in DOMAIN payload |-> payload[i][1]]
Values(payload) == [i \in DOMAIN payload |-> payload[i][2]]
DistinctKeys(payload) ==
    \A i, j \in DOMAIN payload : payload[i][1] = payload[j][1] => i = j

\* the payloads of at most MaxFields members drawn from the given members
Payloads(members) ==
    UNION { { p \in [1 .. n -> members] : DistinctKeys(p) } : n \in 0 .. MaxFields }

RepPayloads == Payloads(UNION { {<<k, v>> : v \in RepValues(k)} : k \in RepKeys })
FichaPayloads ==
    Payloads(UNION { {<<k, v>> : v \in FichaValues(k)} : k \in FichaKeys })

RepColumns == {"codigo", "cantidad_disponible", "n_estante"}
FichaColumns == {"repuestos_colocados", "repuestos_faltantes", "estado"}

\* variant of sql_update: the WHERE clause is missing, every row is updated
sql_update_no_where(tbl, columns, set_cols, params) ==
    IF \/ set_cols = <<>>
       \/ Len(params) # Len(set_cols) + 1
       \/ \E i \in DOMAIN set_cols : set_cols[i] \notin columns
    THEN [ok |-> FALSE, table |-> tbl, rowcount |-> 0]
    ELSE LET new_row(old) ==
                 [c \in DOMAIN old |->
                     IF \E i \in DOMAIN set_cols : set_cols[i] = c
                     THEN params[CHOOSE i \in DOMAIN set_cols : set_cols[i] = c]
                     ELSE old[c]]
             new_tbl == [x \in DOMAIN tbl |-> new_row(tbl[x])]
         IN  [ok |-> TRUE, table |-> new_tbl,
              rowcount |-> Cardinality({x \in DOMAIN tbl : new_tbl[x] # tbl[x]})]

\* cursor.execute("UPDATE <table> SET c1 = %s, ... WHERE <key> = %s", params)
\* and commit: the table afterwards and cursor.rowcount (MySQL counts the rows
\* the statement changed, not the rows it matched).
\* It raises an Error (ok = FALSE) on an empty SET list, on a column the table
\* does not have, and when the parameters do not match the placeholders.
sql_update(tbl, columns, set_cols, params) ==
    IF \/ set_cols = <<>>
       \/ Len(params) # Len(set_cols) + 1
       \/ \E i \in DOMAIN set_cols : set_cols[i] \notin columns
    THEN [ok |-> FALSE, table |-> tbl, rowcount |-> 0]
    ELSE LET id == params[Len(params)]
             new_row(old) ==
                 [c \in DOMAIN old |->
                     IF \E i \in DOMAIN set_cols : set_cols[i] = c
                     THEN params[CHOOSE i \in DOMAIN set_cols : set_cols[i] = c]
                     ELSE old[c]]
             new_tbl == [x \in DOMAIN tbl |->
                            IF x = id THEN new_row(tbl[x]) ELSE tbl[x]]
         IN  [ok |-> TRUE, table |-> new_tbl,
              rowcount |-> Cardinality({x \in DOMAIN tbl : new_tbl[x] # tbl[x]})]

\* ---------------------------------------------------------- update_repuesto
allowed_fields == {"codigo", "descripcion", "cantidad_disponible", "n_estanteria",
                   "n_estante", "n_BIN", "posicion_BIN"}

\* Backend keeps the allow-listed keys; FastAPI keeps every key
repuesto_update_fields(payload) ==
    IF app = "Backend"
    THEN SelectSeq(Keys(payload), LAMBDA k : k \in allowed_fields)
    ELSE Keys(payload)

\* both builds bind every value of the payload, then the id
repuesto_values(payload, id) == Append(Values(payload), id)

BeginUpdateRepuesto(r) ==
    /\ pc[r] = "idle"
    /\ \E cr \in Credentials, id \in RepIds, p \in RepPayloads :
        /\ Arrive(r, [op |-> "update_repuesto", credentials |-> cr, id |-> id,
                      codigo |-> "", action |-> "", payload |-> p])
        /\ Admit(r, cr, "update_repuesto", TRUE)
        /\ UNCHANGED << app, auto_increment, repuestos, maquinas, leaked, cursor,
                        locals, nsql, expected >>

update_repuesto(r) ==
    LET update_fields == repuesto_update_fields(req[r].payload)
        values == repuesto_values(req[r].payload, req[r].id)
        res == sql_update(repuestos, RepColumns, update_fields, values)
    IN
    /\ pc[r] = "execute"
    /\ req[r].op = "update_repuesto"
    /\ \/ /\ update_fields = <<>>
          /\ Raise(r, 400, IF app = "Backend" THEN "No valid fields to update"
                           ELSE "No fields to update")
          /\ UNCHANGED << repuestos, nsql, expected >>
       \/ /\ update_fields # <<>>
          /\ connection[r] = "open"
          /\ res.ok
          /\ repuestos' = res.table
          /\ expected' = [c \in Codes |->
                 IF StoredQty(res.table, c) # StoredQty(repuestos, c)
                 THEN StoredQty(res.table, c) ELSE expected[c]]
          /\ nsql' = [nsql EXCEPT ![r] = @ + 1]
          /\ IF res.rowcount = 0
             THEN Raise(r, 404, "Repuesto no encontrado")
             ELSE Raise(r, 200, "Repuesto actualizado exitosamente")
       \/ /\ update_fields # <<>>
          /\ DbError(r)
          /\ UNCHANGED << repuestos, expected >>
    /\ UNCHANGED << app, auto_increment, storage, maquinas, leaked, req, connection,
                    cursor, locals >>

\* ------------------------------------------------------------- update_ficha
ficha_update_fields(payload) == Keys(payload)

ficha_values(payload, id) ==
    Append([i \in DOMAIN payload |->
               IF payload[i][1] \in {"repuestos_colocados", "repuestos_faltantes"}
               THEN json_dumps(payload[i][2]) ELSE payload[i][2]], id)

BeginUpdateFicha(r) ==
    /\ pc[r] = "idle"
    /\ \E cr \in Credentials, id \in FichaIds, p \in FichaPayloads :
        /\ Arrive(r, [op |-> "update_ficha", credentials |-> cr, id |-> id,
                      codigo |-> "", action |-> "", payload |-> p])
        /\ Admit(r, cr, "update_ficha", TRUE)
        /\ UNCHANGED << app, auto_increment, repuestos, maquinas, leaked, cursor,
                        locals, nsql, expected >>

update_ficha(r) ==
    LET update_fields == ficha_update_fields(req[r].payload)
        values == ficha_values(req[r].payload, req[r].id)
        res == sql_update(maquinas, FichaColumns, update_fields, values)
        \* only FastAPI checks for an empty update before building the query
        checked == app = "FastAPI" /\ update_fields = <<>>
    IN
    /\ pc[r] = "execute"
    /\ req[r].op = "update_ficha"
    /\ \/ /\ checked
          /\ Raise(r, 400, "No fields to update")
          /\ UNCHANGED << maquinas, nsql >>
       \/ /\ ~checked
          /\ connection[r] = "open"
          /\ res.ok
          /\ maquinas' = res.table
          /\ nsql' = [nsql EXCEPT ![r] = @ + 1]
          /\ IF res.rowcount = 0
             THEN Raise(r, 404, "Ficha no encontrada")
             ELSE Raise(r, 200, "Ficha actualizada exitosamente")
       \/ /\ ~checked
          /\ DbError(r)
          /\ UNCHANGED maquinas
    /\ UNCHANGED << app, auto_increment, storage, repuestos, leaked, req,
                    connection, cursor, locals, expected >>

\* ------------------------------------------------------- create and delete
\* the bodies a client posts (the fields the model keeps)
NewRepuestos == {[codigo |-> "PX", cantidad_disponible |-> 1, n_estante |-> 7]}
NewFichas ==
    {[repuestos_colocados |-> d, repuestos_faltantes |-> [c \in {} |-> 0],
      estado |-> "abierta"] : d \in PlacedChoices}

\* INSERT INTO <table> ... VALUES (...): the row gets the table's next id
sql_insert(tbl, id, row) ==
    [x \in DOMAIN tbl \cup {id} |-> IF x = id THEN row ELSE tbl[x]]

\* variant of sql_delete: the statement removes nothing and reports one row
sql_delete_keeps(tbl, id) ==
    [table |-> tbl, rowcount |-> 1]

\* DELETE FROM <table> WHERE <key> = id: the table afterwards and cursor.rowcount
sql_delete(tbl, id) ==
    [table |-> [x \in DOMAIN tbl \ {id} |-> tbl[x]],
     rowcount |-> Cardinality(DOMAIN tbl \cap {id})]

\* the quantities update_stock is expected to have kept, after another handler
\* has written the parts table
Rebased(tbl) ==
    [c \in Codes |->
        IF StoredQty(tbl, c) # StoredQty(repuestos, c) THEN StoredQty(tbl, c)
        ELSE expected[c]]

StartCreate(r, cr, op, body) ==
    /\ auto_increment[IF op = "create_repuesto" THEN "repuestos" ELSE "maquinas"]
          < InitAutoIncrement[IF op = "create_repuesto" THEN "repuestos" ELSE "maquinas"]
            + MaxCreated
    /\ Arrive(r, [op |-> op, credentials |-> cr, id |-> 0, codigo |-> "",
                  action |-> "", payload |-> body])
    /\ Admit(r, cr, op, TRUE)
    /\ UNCHANGED << app, auto_increment, repuestos, maquinas, leaked, cursor, locals,
                    nsql, expected >>

BeginCreateRepuesto(r) ==
    \E cr \in Credentials, body \in NewRepuestos :
        StartCreate(r, cr, "create_repuesto", body)

BeginCreateFicha(r) ==
    \E cr \in Credentials, body \in NewFichas : StartCreate(r, cr, "create_ficha", body)

create_repuesto(r) ==
    /\ pc[r] = "execute"
    /\ req[r].op = "create_repuesto"
    /\ \/ /\ connection[r] = "open"
          /\ repuestos' = sql_insert(repuestos, auto_increment.repuestos, req[r].payload)
          /\ auto_increment' = [auto_increment EXCEPT !.repuestos = @ + 1]
          /\ expected' = Rebased(repuestos')
          /\ nsql' = [nsql EXCEPT ![r] = @ + 1]
          /\ Raise(r, 200, "Repuesto creado exitosamente")
       \/ /\ DbError(r)
          /\ UNCHANGED << repuestos, auto_increment, expected >>
    /\ UNCHANGED << app, storage, maquinas, leaked, req, connection, cursor, locals >>

create_ficha(r) ==
    /\ pc[r] = "execute"
    /\ req[r].op = "create_ficha"
    /\ \/ /\ connection[r] = "open"
          /\ maquinas' = sql_insert(maquinas, auto_increment.maquinas,
                 [repuestos_colocados |-> json_dumps(req[r].payload.repuestos_colocados),
                  repuestos_faltantes |-> json_dumps(req[r].payload.repuestos_faltantes),
                  estado |-> req[r].payload.estado])
          /\ auto_increment' = [auto_increment EXCEPT !.maquinas = @ + 1]
          /\ nsql' = [nsql EXCEPT ![r] = @ + 1]
          /\ Raise(r, 200, "Ficha creada exitosamente")
       \/ /\ DbError(r)
          /\ UNCHANGED << maquinas, auto_increment >>
    /\ UNCHANGED << app, storage, repuestos, leaked, req, connection, cursor, locals,
                    expected >>

StartDelete(r, cr, op, id) ==
    /\ Arrive(r, [op |-> op, credentials |-> cr, id |-> id, codigo |-> "",
                  action |-> "", payload |-> <<>>])
    /\ Admit(r, cr, op, TRUE)
    /\ UNCHANGED << app, auto_increment, repuestos, maquinas, leaked, cursor, locals,
                    nsql, expected >>

BeginDeleteRepuesto(r) ==
    \E cr \in Credentials, id \in RepIds : StartDelete(r, cr, "delete_repuesto", id)

BeginDeleteFicha(r) ==
    \E cr \in Credentials, id \in FichaIds : StartDelete(r, cr, "delete_ficha", id)

delete_repuesto(r) ==
    LET res == sql_delete(repuestos, req[r].id) IN
    /\ pc[r] = "execute"
    /\ req[r].op = "delete_repuesto"
    /\ \/ /\ connection[r] = "open"
          /\ repuestos' = res.table
          /\ expected' = Rebased(res.table)
          /\ nsql' = [nsql EXCEPT ![r] = @ + 1]
          /\ IF res.rowcount = 0
             THEN Raise(r, 404, "Repuesto no encontrado")
             ELSE Raise(r, 200, "Repuesto eliminado exitosamente")
       \/ /\ DbError(r)
          /\ UNCHANGED << repuestos, expected >>
    /\ UNCHANGED << app, auto_increment, storage, maquinas, leaked, req, connection,
                    cursor, locals >>

delete_ficha(r) ==
    LET res == sql_delete(maquinas, req[r].id) IN
    /\ pc[r] = "execute"
    /\ req[r].op = "delete_ficha"
    /\ \/ /\ connection[r] = "open"
          /\ maquinas' = res.table
          /\ nsql' = [nsql EXCEPT ![r] = @ + 1]
          /\ IF res.rowcount = 0
             THEN Raise(r, 404, "Ficha no encontrada")
             ELSE Raise(r, 200, "Ficha eliminada exitosamente")
       \/ /\ DbError(r)
          /\ UNCHANGED maquinas
    /\ UNCHANGED << app, auto_increment, storage, repuestos, leaked, req, connection,
                    cursor, locals, expected >>

\* ------------------------------------------------- list and search handlers
ReadOps == {"get_repuestos", "search_repuestos", "get_fichas", "search_fichas"}

\* GET on a list or search route
StartRead(r, cr, op) ==
    /\ Arrive(r, [op |-> op, credentials |-> cr, id |-> 0, codigo |-> "",
                  action |-> "", payload |-> <<>>])
    /\ Admit(r, cr, op, TRUE)
    /\ UNCHANGED << app, auto_increment, repuestos, maquinas, leaked, cursor, locals,
                    nsql, expected >>

BeginRead(r) == \E cr \in Credentials, op \in ReadOps : StartRead(r, cr, op)

\* execute the SELECT, fetchall(), return the rows
SelectRows(r, op) ==
    /\ pc[r] = "execute"
    /\ req[r].op = op
    /\ \/ /\ connection[r] = "open"
          /\ nsql' = [nsql EXCEPT ![r] = @ + 1]
          /\ Raise(r, 200, "rows")
       \/ DbError(r)
    /\ UNCHANGED << app, auto_increment, storage, repuestos, maquinas, leaked, req,
                    connection, cursor, locals, expected >>

get_repuestos(r) == SelectRows(r, "get_repuestos")
search_repuestos(r) == SelectRows(r, "search_repuestos")
get_fichas(r) == SelectRows(r, "get_fichas")
search_fichas(r) == SelectRows(r, "search_fichas")

\* ------------------------------------------------------------ specifications
\* what an observer of the requests records: the store each request found when
\* it arrived, and the latest answered request when that was a successful
\* update_stock
Found ==
    pre' = [r \in Req |->
            IF pc[r] = "idle" /\ pc'[r] # "idle" THEN Store
            ELSE IF pc'[r] = "idle" THEN NoPre ELSE pre[r]]

Record ==
    /\ Found
    /\ last' =
            IF \E r \in Req : pc[r] = "done" /\ pc'[r] = "idle"
            THEN LET r == CHOOSE x \in Req : pc[x] = "done" /\ pc'[x] = "idle" IN
                 IF req[r].op = "update_stock" /\ status[r] = 200
                 THEN [valid |-> TRUE, id |-> req[r].id, codigo |-> req[r].codigo,
                       action |-> req[r].action,
                       before |-> repuesto[r].cantidad_disponible,
                       after |-> new_stock[r]]
                 ELSE NoLast
            ELSE last

Observe == Record /\ UNCHANGED reached

\* the same observer, recording the store each request found only
ObserveStore == Found /\ UNCHANGED << last, reached >>

Quiet == \A r \in Req : ~InFlight(r)

Idle == \A r \in Req : pc[r] = "idle"

\* the callers let the limiter's windows expire between two requests
Rested == storage = NoStorage

\* requests answered one at a time (a single worker: no handler awaits, so each
\* runs to its end before the next starts), observed
Next ==
    \E r \in {1} :
        \/ Rested /\ BeginUpdateStock(r) /\ Observe
        \/ Rested /\ BeginUpdateRepuesto(r) /\ Observe
        \/ Rested /\ BeginUpdateFicha(r) /\ Observe
        \/ Rested /\ BeginRead(r) /\ Observe
        \/ OpenCursor(r) /\ Observe
        \/ SelectFicha(r) /\ Observe
        \/ SelectRepuesto(r) /\ Observe
        \/ UpdateStock(r) /\ Observe
        \/ update_repuesto(r) /\ Observe
        \/ update_ficha(r) /\ Observe
        \/ get_repuestos(r) /\ Observe
        \/ search_repuestos(r) /\ Observe
        \/ get_fichas(r) /\ Observe
        \/ search_fichas(r) /\ Observe
        \/ Finally(r) /\ Observe
        \/ Respond(r) /\ Observe
        \/ ConnectionLost(r) /\ Observe
        \/ Idle /\ Tick /\ Observe

Spec == Init /\ [][Next]_vars

\* the same, for the create and delete routes and update_stock, on connections
\* that last
NextCrud ==
    \E r \in {1} :
        \/ Rested /\ BeginCreateRepuesto(r) /\ ObserveStore
        \/ Rested /\ BeginCreateFicha(r) /\ ObserveStore
        \/ Rested /\ BeginDeleteRepuesto(r) /\ ObserveStore
        \/ Rested /\ BeginDeleteFicha(r) /\ ObserveStore
        \/ Rested /\ BeginUpdateStock(r) /\ ObserveStore
        \/ OpenCursor(r) /\ ObserveStore
        \/ create_repuesto(r) /\ ObserveStore
        \/ create_ficha(r) /\ ObserveStore
        \/ delete_repuesto(r) /\ ObserveStore
        \/ delete_ficha(r) /\ ObserveStore
        \/ SelectFicha(r) /\ ObserveStore
        \/ SelectRepuesto(r) /\ ObserveStore
        \/ UpdateStock(r) /\ ObserveStore
        \/ Finally(r) /\ ObserveStore
        \/ Respond(r) /\ ObserveStore
        \/ Idle /\ Tick /\ ObserveStore

SpecCrud == Init /\ [][NextCrud]_vars

\* a caller sends at most MaxHits requests to a route within a minute
Sparse == \A kr \in DOMAIN storage : storage[kr].n <= MaxHits

\* concurrent update_stock requests on one part (several workers)
NextStock ==
    \E r \in Req :
        \/ BeginUpdateStockP1(r) /\ Sparse' /\ UNCHANGED << pre, last, reached >>
        \/ OpenCursor(r) /\ UNCHANGED << pre, last, reached >>
        \/ SelectFicha(r) /\ UNCHANGED << pre, last, reached >>
        \/ SelectRepuesto(r) /\ UNCHANGED << pre, last, reached >>
        \/ UpdateStock(r) /\ UNCHANGED << pre, last, reached >>
        \/ Finally(r) /\ UNCHANGED << pre, last, reached >>
        \/ Respond(r) /\ UNCHANGED << pre, last, reached >>
        \/ ConnectionLost(r) /\ UNCHANGED << pre, last, reached >>
        \/ Idle /\ Tick /\ UNCHANGED << pre, last, reached >>

SpecStock == Init /\ [][NextStock]_vars

\* GET /repuestos
BeginGetRepuestos(r) == StartRead(r, "tokA", "get_repuestos")

\* concurrent list requests on connections the server may drop at any time
NextPool ==
    \E r \in Req :
        \/ BeginGetRepuestos(r) /\ Sparse' /\ UNCHANGED << pre, last, reached >>
        \/ OpenCursor(r) /\ UNCHANGED << pre, last, reached >>
        \/ get_repuestos(r) /\ UNCHANGED << pre, last, reached >>
        \/ Finally(r) /\ UNCHANGED << pre, last, reached >>
        \/ Respond(r) /\ UNCHANGED << pre, last, reached >>
        \/ Disconnect(r) /\ UNCHANGED << pre, last, reached >>
        \/ Idle /\ Tick /\ UNCHANGED << pre, last, reached >>

SpecPool == Init /\ [][NextPool]_vars

\* the requests of (caller, route) kr that reached their handler in the last
\* Minute time slots, the current one included
InWindow(kr) ==
    LET RECURSIVE sum(_)
        sum(i) == IF i = 0 THEN 0 ELSE reached[kr][i] + sum(i - 1)
    IN  sum(Minute)

\* request r arrives in this step and its handler is called
Enters(r) ==
    /\ pc[r] = "idle" /\ pc'[r] # "idle"
    /\ status'[r] \notin {401, 403, 422, 429}

\* what an observer of the handlers counts, per caller and route
Count ==
    reached' = [kr \in DOMAIN reached |->
        IF \E r \in Req :
              Enters(r) /\ req'[r].credentials = kr[1] /\ req'[r].op = kr[2]
        THEN [reached[kr] EXCEPT ![Minute] = @ + 1]
        ELSE reached[kr]]

\* the observer's counts as a time slot passes
Shift ==
    reached' = [kr \in DOMAIN reached |->
        [i \in 1 .. Minute |-> IF i < Minute THEN reached[kr][i + 1] ELSE 0]]

\* requests of two callers on two list routes, answered one at a time, as fast
\* as the callers like
NextLimit ==
    \E r \in {1} :
        \/ BeginGetRepuestos(r) /\ InWindow(<<"tokA", "get_repuestos">>) <= per_minute
                                /\ Count /\ Record
        \/ StartRead(r, "tokB", "get_repuestos")
               /\ InWindow(<<"tokB", "get_repuestos">>) < MaxOther /\ Count /\ Record
        \/ StartRead(r, "tokA", "get_fichas")
               /\ InWindow(<<"tokA", "get_fichas">>) < MaxOther /\ Count /\ Record
        \/ OpenCursor(r) /\ Observe
        \/ get_repuestos(r) /\ Observe
        \/ get_fichas(r) /\ Observe
        \/ Finally(r) /\ Observe
        \/ Respond(r) /\ Observe
        \/ Idle /\ Tick /\ Shift /\ Record

SpecLimit == Init /\ [][NextLimit]_vars

\* -------------------------------------------------------------------- claims
Done(r) == pc[r] = "done"
IsStock(r) == Done(r) /\ req[r].op = "update_stock"
\* the request was answered before its handler was called: by the credential
\* check (401, 403), the validation of its arguments (422) or the limiter (429)
Refused(r) == status[r] \in {401, 403, 422, 429}
\* the store the request found: whether its job and part rows exist, the
\* quantity stored for its part and the quantity its job records for that part
PreJob(r) == req[r].id \in DOMAIN pre[r].maquinas
PrePart(r) == RowsByCodigo(pre[r].repuestos, req[r].codigo) # {}
PrePlaced(r) == json_loads(pre[r].maquinas[req[r].id].repuestos_colocados)
PreRecorded(r) == PreJob(r) /\ req[r].codigo \in DOMAIN PrePlaced(r)
PreQty(r) == StoredQty(pre[r].repuestos, req[r].codigo)
PreDelta(r) == PrePlaced(r)[req[r].codigo]
NowQty(r) == StoredQty(repuestos, req[r].codigo)

\* C1: once all concurrent update_stock requests on a part have finished, the
\* stored quantity is the initial quantity plus the signed deltas of the
\* successful requests (no update is lost or applied twice)
C1_NoLostUpdate ==
    Quiet => \A c \in Codes : StoredQty(repuestos, c) = expected[c]

\* C2: with requests answered one at a time, a decrease on a recorded part of an
\* existing job succeeds exactly when stored quantity - recorded delta >= 0;
\* otherwise it is answered 400 "Not enough stock" and the parts table is as it
\* was (a store failure, 500, and requests refused before the handler aside)
C2_DecreaseGuard ==
    \A r \in Req :
        (IsStock(r) /\ req[r].action = "decrease" /\ PreRecorded(r) /\ PrePart(r)
            /\ status[r] # 500 /\ ~Refused(r))
        => /\ status[r] = 200 <=> PreQty(r) - PreDelta(r) >= 0
           /\ status[r] = 200 => NowQty(r) = PreQty(r) - PreDelta(r)
           /\ PreQty(r) - PreDelta(r) < 0 =>
                 /\ status[r] = 400
                 /\ detail[r] = "Not enough stock"
                 /\ repuestos = pre[r].repuestos

\* a third decrease by 1 from 2: the two before it succeeded, the stock is 0,
\* and this one is rejected
C2_Witness ==
    \E r \in Req :
        /\ IsStock(r) /\ req[r].action = "decrease"
        /\ status[r] = 400 /\ detail[r] = "Not enough stock"
        /\ last.valid /\ last.action = "decrease" /\ last.after = 0
        /\ last.before = PreDelta(r)
        /\ NowQty(r) = 0

\* C3: a successful update_stock answered in isolation stores current - delta
\* for decrease and current + delta for increase, delta being the quantity the
\* job records for the part, and the new_stock it returns is the quantity
\* stored after the call
C3_StoresDelta ==
    \A r \in Req :
        (IsStock(r) /\ status[r] = 200)
        => /\ PreRecorded(r) /\ PrePart(r)
           /\ req[r].action \in {"increase", "decrease"}
           /\ NowQty(r) = IF req[r].action = "decrease"
                           THEN PreQty(r) - PreDelta(r)
                           ELSE PreQty(r) + PreDelta(r)
           /\ new_stock[r] = NowQty(r)

C3_Witness ==
    \E r \in Req :
        /\ IsStock(r) /\ status[r] = 200 /\ req[r].action = "increase"
        /\ PreDelta(r) = 2 /\ PreQty(r) = 0 /\ new_stock[r] = 2 /\ NowQty(r) = 2

\* the request answered right after a successful update_stock on the same job
\* and part, in the opposite direction, that reached its handler and was not
\* failed by the store
Inverse(r) ==
    /\ IsStock(r) /\ last.valid
    /\ req[r].id = last.id /\ req[r].codigo = last.codigo
    /\ req[r].action \in {"increase", "decrease"}
    /\ req[r].action # last.action
    /\ status[r] # 500 /\ ~Refused(r)

\* C4 as claimed: a decrease then an increase, and an increase then a decrease,
\* both restore the quantity stored before the pair, for any quantity (the
\* decrease after an increase is never rejected)
C4_Original ==
    \A r \in Req :
        Inverse(r) => status[r] = 200 /\ NowQty(r) = last.before

\* C4 amended: a decrease then an increase restores the quantity s stored before
\* the pair; an increase then a decrease restores s when s >= 0, and when s < 0
\* the decrease is rejected with 400 and the quantity stays s + delta
C4_InverseNonNegative ==
    \A r \in Req :
        Inverse(r)
        => IF last.action = "decrease" \/ last.before >= 0
           THEN status[r] = 200 /\ NowQty(r) = last.before
           ELSE /\ status[r] = 400 /\ detail[r] = "Not enough stock"
                /\ NowQty(r) = last.after

\* an increase by 2 answered right after the decrease by 2 that took 2 to 0
C4_Witness ==
    \E r \in Req :
        /\ Inverse(r) /\ last.action = "decrease" /\ req[r].action = "increase"
        /\ last.before = 2 /\ last.after = 0
        /\ status[r] = 200 /\ NowQty(r) = 2

\* C5: a handler that has ended has returned its connection, on every exit path,
\* so no pooled connection is checked out while no request is in flight
C5_Released ==
    /\ \A r \in Req :
          (Done(r) /\ app = "Backend") => connection[r] \in {"none", "closed"}
    /\ Quiet => CheckedOut = 0

\* C6: update_stock for an existing job and an existing part whose code the job
\* does not record, once it reaches the handler, is answered 400 for either
\* action (a store failure, 500, aside) and no stored quantity changes
C6_NotRecorded ==
    \A r \in Req :
        (IsStock(r) /\ PreJob(r) /\ PrePart(r) /\ ~PreRecorded(r)
            /\ req[r].action \in {"increase", "decrease"} /\ ~Refused(r))
        => /\ status[r] \in {400, 500}
           /\ status[r] = 400 => detail[r] = "Repuesto not found in repuestos_colocados"
           /\ repuestos = pre[r].repuestos

C6_Witness ==
    \E r \in Req :
        /\ IsStock(r) /\ req[r].id = 1 /\ req[r].codigo = "P2"
        /\ req[r].action = "increase"
        /\ PreJob(r) /\ PrePart(r) /\ ~PreRecorded(r)
        /\ status[r] = 400

\* C7: when the job row or the part row is absent, the update_stock handler
\* answers 404 (a store failure, 500, aside), whether or not the job records the
\* part code, and no stored quantity changes; a request that fails the
\* credential check or the validation (422) never reaches the handler
C7_NotFoundFirst ==
    \A r \in Req :
        (IsStock(r) /\ (~PreJob(r) \/ ~PrePart(r)) /\ ~Refused(r))
        => /\ status[r] \in {404, 500}
           /\ repuestos = pre[r].repuestos

\* the part PX has no row and job 1 does not record it: 404, not 400
C7_Witness ==
    \E r \in Req :
        /\ IsStock(r) /\ req[r].id = 1 /\ req[r].codigo = "PX"
        /\ PreJob(r) /\ ~PrePart(r) /\ ~PreRecorded(r)
        /\ req[r].action = "decrease"
        /\ status[r] = 404

\* C8: an update_stock request whose action is neither increase nor decrease is
\* answered 400 and changes no stored quantity, whatever the state of the job
\* and the part (a store failure, 500, and a refused credential aside)
C8_InvalidAction400 ==
    \A r \in Req :
        (IsStock(r) /\ req[r].action \notin {"increase", "decrease"}
            /\ status[r] \notin {401, 403, 500})
        => status[r] = 400 /\ repuestos = pre[r].repuestos

\* the payload of an update yields no recognized field: it is empty or, for a
\* part, none of its keys is allow-listed
NoRecognizedField(r) ==
    \/ req[r].op \in {"update_repuesto", "update_ficha"} /\ req[r].payload = <<>>
    \/ /\ req[r].op = "update_repuesto"
       /\ \A i \in DOMAIN req[r].payload : req[r].payload[i][1] \notin allowed_fields

\* C9: an update (part or job) whose payload yields no recognized field is
\* answered 400 before any SQL statement is sent, and the store is unchanged
\* (Backend, the build with the allow-list; handlers that got their cursor)
C9_EmptyUpdateRejected ==
    \A r \in Req :
        (Done(r) /\ app = "Backend" /\ cursor[r] /\ NoRecognizedField(r))
        => status[r] = 400 /\ nsql[r] = 0 /\ Store = pre[r]

\* the payload of an update is not empty and names columns of its table only
ValidPayload(r) ==
    /\ req[r].payload # <<>>
    /\ \A i \in DOMAIN req[r].payload :
           req[r].payload[i][1] \in
               IF req[r].op = "update_repuesto" THEN RepColumns ELSE FichaColumns

NoSuchRow(r) ==
    req[r].id \notin
        IF req[r].op = "update_repuesto" THEN DOMAIN pre[r].repuestos
        ELSE DOMAIN pre[r].maquinas

\* C10: an update (part or job) with a non-empty valid payload and an id that
\* matches no row, once it reaches the handler, is answered 404 (a store
\* failure, 500, aside) and every row of
\* both tables is as before the call
C10_UpdateNotFound ==
    \A r \in Req :
        (Done(r) /\ req[r].op \in {"update_repuesto", "update_ficha"}
            /\ ValidPayload(r) /\ NoSuchRow(r) /\ ~Refused(r))
        => /\ status[r] \in {404, 500}
           /\ Store = pre[r]

C10_Witness ==
    \E r \in Req :
        /\ Done(r) /\ req[r].op = "update_repuesto" /\ req[r].id = 3
        /\ Len(req[r].payload) = 2 /\ ValidPayload(r) /\ NoSuchRow(r)
        /\ status[r] = 404 /\ nsql[r] = 1

\* the request was answered by its handler, with no failure of the store or of
\* the connection
Handled(r) == Done(r) /\ ~Refused(r) /\ status[r] # 500

IsDelete(r) == Done(r) /\ req[r].op \in {"delete_repuesto", "delete_ficha"}
\* the table a delete request targets, in a store, and the other table
Target(r, st) == IF req[r].op = "delete_repuesto" THEN st.repuestos ELSE st.maquinas
Other(r, st) == IF req[r].op = "delete_repuesto" THEN st.maquinas ELSE st.repuestos
TargetName(r) == IF req[r].op = "delete_repuesto" THEN "repuestos" ELSE "maquinas"

\* C11: with requests answered one at a time, a delete (part or job) of an
\* existing id removes exactly that row and answers 200; a delete of an id that
\* has no row, in particular one deleted before (ids are never given twice),
\* answers 404 and changes nothing; a delete answers 200 only when it removed
\* a row (a store failure, 500, aside)
C11_DeleteOnce ==
    /\ \A id \in DOMAIN repuestos : id < auto_increment.repuestos
    /\ \A id \in DOMAIN maquinas : id < auto_increment.maquinas
    /\ \A r \in Req :
          (IsDelete(r) /\ Handled(r))
          => IF req[r].id \in DOMAIN Target(r, pre[r])
             THEN /\ status[r] = 200
                  /\ DOMAIN Target(r, Store) = DOMAIN Target(r, pre[r]) \ {req[r].id}
                  /\ \A x \in DOMAIN Target(r, Store) :
                         Target(r, Store)[x] = Target(r, pre[r])[x]
                  /\ Other(r, Store) = Other(r, pre[r])
             ELSE /\ status[r] = 404
                  /\ Store = pre[r]
    /\ \A r \in Req :
          (IsDelete(r) /\ status[r] # 200) => Store = pre[r]

\* the second delete of the part that was created with id 3 and then deleted
C11_Witness ==
    \E r \in Req :
        /\ IsDelete(r) /\ req[r].op = "delete_repuesto" /\ req[r].id = 3
        /\ auto_increment.repuestos = 4
        /\ req[r].id \notin DOMAIN pre[r].repuestos
        /\ status[r] = 404 /\ nsql[r] = 1

\* C12: the pooled connections checked out never exceed pool_size; a request
\* that reaches get_db_connection while pool_size connections are checked out
\* is answered 500 in that step (it does not wait), takes no connection, and
\* the requests that hold connections, the pool and the store are as they were
C12_PoolBound ==
    /\ [](CheckedOut <= pool_size)
    /\ [][\A r \in Req :
            (/\ app = "Backend"
             /\ pc[r] = "idle" /\ pc'[r] # "idle"
             /\ req'[r].credentials \in Tokens
             /\ CheckedOut = pool_size)
            => /\ pc'[r] = "done" /\ status'[r] = 500
               /\ connection'[r] = "none"
               /\ \A x \in Req \ {r} :
                      /\ pc'[x] = pc[x] /\ connection'[x] = connection[x]
                      /\ status'[x] = status[x] /\ cursor'[x] = cursor[x]
               /\ leaked' = leaked
               /\ Store' = Store]_vars

\* nine connections were lost for good, one request holds the tenth, and the
\* other request was answered 500 without a connection
C12_Witness ==
    \E r, x \in Req :
        /\ app = "Backend" /\ r # x
        /\ leaked = pool_size - 1
        /\ InFlight(x) /\ connection[x] = "open"
        /\ CheckedOut = pool_size
        /\ Done(r) /\ status[r] = 500 /\ connection[r] = "none" /\ nsql[r] = 0

\* the request carries no bearer credential, or one that is invalid or expired
BadCredential(r) == req[r].op # "none" /\ req[r].credentials \notin Tokens

\* C13: on every route, a request whose bearer credential is missing, invalid
\* or expired is answered unauthorized (401; 403 from the bearer scheme of
\* earlier framework releases) and its handler never runs: it takes no
\* connection, sends no SQL statement and the store stays as it was
C13_Unauthorized ==
    \A r \in Req :
        (pc[r] # "idle" /\ BadCredential(r))
        => /\ pc[r] = "done"
           /\ status[r] \in {401, 403}
           /\ connection[r] = "none"
           /\ nsql[r] = 0
           /\ Store = pre[r]

\* C14: in every window of one minute, for each caller and route at most
\* per_minute requests reach the handler; a request answered 429 did not reach
\* its handler (no connection, no SQL statement, store unchanged) and its own
\* caller and route had reached per_minute in the window, whatever the other
\* callers and routes did
C14_RateLimit ==
    /\ \A kr \in DOMAIN reached : InWindow(kr) <= per_minute
    /\ \A r \in Req :
          (Done(r) /\ status[r] = 429)
          => /\ connection[r] = "none" /\ nsql[r] = 0 /\ Store = pre[r]
             /\ InWindow(<<req[r].credentials, req[r].op>>) >= per_minute

NonNegative(tbl) == \A i \in DOMAIN tbl : tbl[i].cantidad_disponible >= 0

\* C15: from a store whose parts all have cantidad_disponible >= 0, where parts
\* are created with a quantity >= 0 and only update_stock changes quantities,
\* whatever jobs create_ficha has accepted, every part's cantidad_disponible
\* stays >= 0
C15_NonNegativeStock == NonNegative(repuestos)

\* the payload of an update_repuesto request names an allow-listed key
HasAllowedKey(r) ==
    /\ req[r].op = "update_repuesto"
    /\ \E i \in DOMAIN req[r].payload : req[r].payload[i][1] \in allowed_fields

\* C16: when update_repuesto (the build with the allow-list) sends its UPDATE
\* for a payload with an allow-listed key, the SET columns are the allow-listed
\* keys of the payload, there is one bound value per column and it is the
\* value the payload gives for that key, and the last bound value is the id
C16_Correspondence ==
    \A r \in Req :
        (app = "Backend" /\ pc[r] = "execute" /\ HasAllowedKey(r))
        => LET payload == req[r].payload
               update_fields == repuesto_update_fields(payload)
               values == repuesto_values(payload, req[r].id)
           IN  /\ \A i \in DOMAIN update_fields : update_fields[i] \in allowed_fields
               /\ Len(values) = Len(update_fields) + 1
               /\ values[Len(values)] = req[r].id
               /\ \A i \in DOMAIN update_fields :
                      \E j \in DOMAIN payload :
                          payload[j][1] = update_fields[i] /\ payload[j][2] = values[i]

\* C17: with requests answered one at a time, update_stock leaves every job row
\* and every part whose code is not the requested one as they were, on every
\* outcome; on success the part with the requested code differs in
\* cantidad_disponible only; on any other outcome the store is unchanged
C17_Frame ==
    \A r \in Req :
        IsStock(r)
        => /\ maquinas = pre[r].maquinas
           /\ DOMAIN repuestos = DOMAIN pre[r].repuestos
           /\ \A i \in DOMAIN repuestos :
                  IF repuestos[i].codigo = req[r].codigo
                  THEN repuestos[i] =
                         [pre[r].repuestos[i] EXCEPT
                             !.cantidad_disponible = repuestos[i].cantidad_disponible]
                  ELSE repuestos[i] = pre[r].repuestos[i]
           /\ status[r] # 200 => Store = pre[r]

\* an increase of the created part PX by the 1 that the created job 2 records:
\* row 3 goes from 1 to 2 and the parts P1 and P2 keep what they had
C17_Witness ==
    \E r \in Req :
        /\ IsStock(r) /\ status[r] = 200
        /\ req[r].id = 2 /\ req[r].codigo = "PX" /\ req[r].action = "increase"
        /\ pre[r].repuestos[3].cantidad_disponible = 1
        /\ repuestos[3].cantidad_disponible = 2
        /\ repuestos[1] = pre[r].repuestos[1] /\ repuestos[2] = pre[r].repuestos[2]
        /\ maquinas = pre[r].maquinas

====
